---- MODULE Spec2Model ----
(***************************************************************************)
(* Threaded NAT/PAT proxy (src/proxy_server.py).  One worker thread per   *)
(* accepted client connection runs handle_client; all workers share the   *)
(* dictionary nat_table, guarded by nat_lock.  Text is modelled as        *)
(* sequences of one-character strings, sockets as byte streams.           *)
(***************************************************************************)
EXTENDS Integers, Sequences, FiniteSets, TLC

\* ------------------------------------------------------------------ bounds

\* Number of ephemeral local ports the OS can hand to an upstream connect.
NumPorts == 2

\* nat_port = None (no upstream port recorded for the current command).
NoPort == 0

\* recv(min(4096, remaining)): the largest chunk one recv may return.
RecvMax == 4096

Ports == 1 .. NumPorts

\* The client connections accepted by start(); a worker is named after the
\* connection it serves (the connection handle is client_conn).
Sessions == {"A", "B"}

\* client_addr of each accepted connection: (host, port), distinct per connection.
ClientAddr(s) == IF s = "A" THEN <<"10.0.0.1", 40001>> ELSE <<"10.0.0.1", 40002>>

NoHolder == "none"

\* dict.get's None, as a record so that it compares with entries.
None == [client_conn |-> "None", client_addr |-> "None", client_port |-> 0]

\* ------------------------------------------------------------- text helpers

NL == "\n"

IsSpace(ch) == ch \in {" ", "\t", "\r", "\n"}

Lowers == <<"a", "b", "c", "d", "e", "f", "g", "h", "i", "j", "k", "l", "m",
            "n", "o", "p", "q", "r", "s", "t", "u", "v", "w", "x", "y", "z">>

Uppers == <<"A", "B", "C", "D", "E", "F", "G", "H", "I", "J", "K", "L", "M",
            "N", "O", "P", "Q", "R", "S", "T", "U", "V", "W", "X", "Y", "Z">>

UpperChar(ch) ==
    IF \E i \in DOMAIN Lowers : Lowers[i] = ch
    THEN Uppers[CHOOSE i \in DOMAIN Lowers : Lowers[i] = ch]
    ELSE ch

\* str.upper()
Upper(str) == [i \in DOMAIN str |-> UpperChar(str[i])]

RECURSIVE LStrip(_)
LStrip(str) ==
    IF str # <<>> /\ IsSpace(Head(str)) THEN LStrip(Tail(str)) ELSE str

RECURSIVE RStrip(_)
RStrip(str) ==
    IF str # <<>> /\ IsSpace(str[Len(str)])
    THEN RStrip(SubSeq(str, 1, Len(str) - 1))
    ELSE str

\* str.strip()
Strip(str) == RStrip(LStrip(str))

\* str.startswith(prefix)
StartsWith(str, prefix) ==
    /\ Len(str) >= Len(prefix)
    /\ SubSeq(str, 1, Len(prefix)) = prefix

\* str.endswith(suffix)
EndsWith(str, suffix) ==
    /\ Len(str) >= Len(suffix)
    /\ SubSeq(str, Len(str) - Len(suffix) + 1, Len(str)) = suffix

\* Length of the leading run of non-whitespace characters.
RECURSIVE TokenLen(_)
TokenLen(str) ==
    IF str = <<>> \/ IsSpace(Head(str)) THEN 0 ELSE 1 + TokenLen(Tail(str))

\* str.split(maxsplit=1): the list of at most two parts.
SplitMax1(str) ==
    LET body == LStrip(str)
        n    == TokenLen(body)
        rest == LStrip(SubSeq(body, n + 1, Len(body)))
    IN  IF body = <<>> THEN <<>>
        ELSE IF rest = <<>> THEN <<SubSeq(body, 1, n)>>
        ELSE <<SubSeq(body, 1, n), rest>>

Digits == <<"0", "1", "2", "3", "4", "5", "6", "7", "8", "9">>

IsDigit(ch) == \E i \in DOMAIN Digits : Digits[i] = ch

DigitVal(ch) == (CHOOSE i \in DOMAIN Digits : Digits[i] = ch) - 1

RECURSIVE DigitsVal(_)
DigitsVal(str) ==
    IF str = <<>> THEN 0
    ELSE 10 * DigitsVal(SubSeq(str, 1, Len(str) - 1)) + DigitVal(str[Len(str)])

\* int(size_str): surrounding whitespace and a sign are accepted; anything
\* else raises ValueError.
ParseInt(str) ==
    LET body   == Strip(str)
        signed == body # <<>> /\ Head(body) \in {"+", "-"}
        digs   == IF signed THEN Tail(body) ELSE body
    IN  IF digs # <<>> /\ \A i \in DOMAIN digs : IsDigit(digs[i])
        THEN [ok |-> TRUE,
              val |-> IF signed /\ Head(body) = "-"
                      THEN 0 - DigitsVal(digs) ELSE DigitsVal(digs)]
        ELSE [ok |-> FALSE, val |-> 0]

Min(a, b) == IF a <= b THEN a ELSE b

RECURSIVE Flatten(_)
Flatten(chunks) ==
    IF chunks = <<>> THEN <<>> ELSE Head(chunks) \o Flatten(Tail(chunks))

\* ------------------------------------------------------------ wire literals

OK_     == <<"O", "K">>
OK_SP   == <<"O", "K", " ">>
END_    == <<"E", "N", "D">>
LIST_   == <<"L", "I", "S", "T">>
DOWNLOAD_ == <<"D", "O", "W", "N", "L", "O", "A", "D">>
ERR_SP  == <<"E", "R", "R", " ">>

MsgProxyError == <<"p", "r", "o", "x", "y", " ", "e", "r", "r", "o", "r", ":", " ">>

MsgEmptyResponse ==
    <<"e", "m", "p", "t", "y", " ", "r", "e", "s", "p", "o", "n", "s", "e", " ",
      "f", "r", "o", "m", " ", "s", "e", "r", "v", "e", "r">>

MsgInvalidSize ==
    <<"i", "n", "v", "a", "l", "i", "d", " ", "s", "i", "z", "e", " ",
      "f", "r", "o", "m", " ", "s", "e", "r", "v", "e", "r">>

\* str(exc) of the exceptions the socket calls raise.
ExcText(kind) ==
    CASE kind = "reset" ->
           <<"[", "E", "r", "r", "n", "o", " ", "1", "0", "4", "]", " ", "C", "o",
             "n", "n", "e", "c", "t", "i", "o", "n", " ", "r", "e", "s", "e", "t",
             " ", "b", "y", " ", "p", "e", "e", "r">>
      [] kind = "refused" ->
           <<"[", "E", "r", "r", "n", "o", " ", "1", "1", "1", "]", " ", "C", "o",
             "n", "n", "e", "c", "t", "i", "o", "n", " ", "r", "e", "f", "u", "s",
             "e", "d">>
      [] OTHER ->
           <<"[", "E", "r", "r", "n", "o", " ", "3", "2", "]", " ", "B", "r", "o",
             "k", "e", "n", " ", "p", "i", "p", "e">>


\* What a client may write on its connection before the worker's next
\* readline: bytes, then either more to come ("open") or the client's close.
ClientInputs ==
    { [buf |-> <<"L", "I", "S", "T", "\n">>, fin |-> "open"],
      [buf |-> <<"L", "I", "S", "T", " ", "x", "\n">>, fin |-> "open"],
      [buf |-> <<" ", "d", "o", "w", "n", "l", "o", "a", "d", " ", "f", "\n">>, fin |-> "open"],
      [buf |-> <<"D", "O", "W", "N", "L", "O", "A", "D", "S", " ", "f", "\n">>, fin |-> "open"],
      [buf |-> <<" ", "\n">>, fin |-> "open"],
      [buf |-> <<"L", "I", "S", "T">>, fin |-> "eof"] }

\* What the backend may put on an upstream connection: bytes, then its close
\* ("eof"), a connection reset ("reset"), or silence ("block").
\* _handle_list with files a and b, whole, cut by a reset, cut inside a line.
ReplyList      == [buf |-> <<"O", "K", "\n", "a", "\n", "b", "\n", "E", "N", "D", "\n", "z", "\n">>, fin |-> "eof"]
ReplyListReset == [buf |-> <<"O", "K", "\n", "a", "\n">>, fin |-> "reset"]
ReplyListPart  == [buf |-> <<"O", "K", "\n", "E", "N">>, fin |-> "eof"]
\* _handle_download of a file whose stat size is 2: with one byte more than the
\* size, cut after one byte, with a damaged size before its first byte, and for
\* a missing file.
ReplyFile      == [buf |-> <<"O", "K", " ", "2", "\n", "x", "y", "z">>, fin |-> "eof"]
ReplyFileCut   == [buf |-> <<"O", "K", " ", "2", "\n", "x">>, fin |-> "eof"]
ReplyBadSize   == [buf |-> <<"O", "K", " ", "x", "\n", "q">>, fin |-> "eof"]
ReplyNotFound  == [buf |-> <<"E", "R", "R", " ", "f", "i", "l", "e", " ", "n", "o", "t", " ", "f", "o", "u", "n", "d", "\n">>, fin |-> "eof"]
ReplyUnknown   == [buf |-> <<"E", "R", "R", " ", "u", "n", "k", "n", "o", "w", "n", " ", "c", "o", "m", "m", "a", "n", "d", "\n">>, fin |-> "eof"]
\* A backend that fails whatever the command.
ReplyNothing   == [buf |-> <<>>, fin |-> "eof"]
ReplyBlank     == [buf |-> <<"\n">>, fin |-> "eof"]
ReplyReset     == [buf |-> <<>>, fin |-> "reset"]
ReplyStall     == [buf |-> <<>>, fin |-> "block"]

NoReply == [buf |-> <<>>, fin |-> "none"]

\* ------------------------------------------------------------ line transport

FirstNL(buf) == CHOOSE i \in DOMAIN buf : buf[i] = NL /\ \A j \in 1 .. i - 1 : buf[j] # NL

\* _readline(sock) on a stream [buf, fin]: recv(1) until "\n" or end of stream.
\* kind "line": the bytes before the newline (or the unterminated bytes before
\* the peer's close); "none": None; "raise": recv raised; "block": no return.
ReadLine(stream) ==
    IF \E i \in DOMAIN stream.buf : stream.buf[i] = NL
    THEN LET i == FirstNL(stream.buf)
         IN  [kind |-> "line", line |-> SubSeq(stream.buf, 1, i - 1),
              rest |-> SubSeq(stream.buf, i + 1, Len(stream.buf))]
    ELSE CASE stream.fin = "eof" ->
                IF stream.buf = <<>>
                THEN [kind |-> "none", line |-> <<>>, rest |-> <<>>]
                ELSE [kind |-> "line", line |-> stream.buf, rest |-> <<>>]
           [] stream.fin = "reset" -> [kind |-> "raise", line |-> <<>>, rest |-> <<>>]
           [] OTHER -> [kind |-> "block", line |-> <<>>, rest |-> stream.buf]

\* _send_line_via_nat's framing: append "\n" unless already there.
FrameLine(line) == IF EndsWith(line, <<NL>>) THEN line ELSE line \o <<NL>>

\* _send_err_via_nat's line.
ErrLine(message) == FrameLine(ERR_SP \o message)

\* ----------------------------------------------------------------- NAT table

\* NATEntry(client_conn, client_addr[0], client_addr[1])
NATEntry(client_conn, client_addr) ==
    [client_conn |-> client_conn, client_addr |-> client_addr[1],
     client_port |-> client_addr[2]]

\* A register that keeps an entry already stored for the port (setdefault).
TableRegisterKeep(table, port, client_conn, client_addr) ==
    IF table[port] = None
    THEN [table EXCEPT ![port] = NATEntry(client_conn, client_addr)]
    ELSE table

\* self.nat_table[nat_port] = NATEntry(...)
TableRegister(table, port, client_conn, client_addr) ==
    [table EXCEPT ![port] = NATEntry(client_conn, client_addr)]

\* A remove that leaves the table as it is.
TableRemoveNoop(table, port) == table

\* self.nat_table.pop(nat_port, None)
TableRemove(table, port) == [table EXCEPT ![port] = None]

\* A sweep that compares the stored host only.
TableRemoveByHost(table, client_addr) ==
    [p \in DOMAIN table |->
        IF table[p] # None /\ table[p].client_addr = client_addr[1]
        THEN None ELSE table[p]]

\* del self.nat_table[port] for every port whose entry's (client_addr,
\* client_port) equals client_addr.
TableRemoveByClient(table, client_addr) ==
    [p \in DOMAIN table |->
        IF table[p] # None /\ <<table[p].client_addr, table[p].client_port>> = client_addr
        THEN None ELSE table[p]]

\* self.nat_table.get(nat_port)
TableGet(table, port) == table[port]


\* ------------------------------------------------------------------- backend

\* outbound = request_line if request_line.endswith("\n") else request_line + "\n"
Outbound(line) == IF EndsWith(line, <<NL>>) THEN line ELSE line \o <<NL>>

\* FileRequestHandler.handle: nothing is answered to an empty line; otherwise
\* the verb is the first token, upper-cased; the reply is the handler's,
\* possibly cut short or damaged, or the backend fails.
BackendReplies(line) ==
    LET parts   == SplitMax1(Strip(line))
        command == IF parts = <<>> THEN <<>> ELSE Upper(parts[1])
    IN  {ReplyNothing, ReplyBlank, ReplyReset, ReplyStall} \cup
        ( IF parts = <<>>
          THEN {}
          ELSE IF command = LIST_
          THEN {ReplyList, ReplyListReset, ReplyListPart}
          ELSE IF command = DOWNLOAD_ /\ Len(parts) = 2
          THEN {ReplyFile, ReplyFileCut, ReplyBadSize, ReplyNotFound}
          ELSE {ReplyUnknown} )

\* The request lines a worker can hold: what handle_client keeps of each input.
RequestLines == {<<>>} \cup { Strip(ReadLine(input).line) : input \in ClientInputs }

\* The replies to each request as it is sent upstream, tabulated.
Served == [line \in { Outbound(q) : q \in RequestLines } \cup {<<>>} |-> BackendReplies(line)]

\* The header lines a worker can hold.
ResponseLines ==
    {<<>>} \cup { ReadLine(reply).line :
                    reply \in UNION { BackendReplies(Outbound(q)) : q \in RequestLines } }

\* _forward_response, lines 89-98: what follows the header, from the request
\* line and the header line: "bytes" with their number, "invalid" for a size
\* that int() rejects, "lines" for a listing, "nothing" otherwise.
ResponseShape(request, resp) ==
    LET req   == Upper(Strip(request))
        parts == SplitMax1(resp)
        size  == IF Len(parts) = 2 THEN ParseInt(parts[2]) ELSE [ok |-> FALSE, val |-> 0]
    IN  IF StartsWith(resp, OK_SP) /\ StartsWith(req, DOWNLOAD_)
        THEN IF size.ok THEN [kind |-> "bytes", size |-> size.val]
                        ELSE [kind |-> "invalid", size |-> 0]
        ELSE IF resp = OK_ /\ req = LIST_
             THEN [kind |-> "lines", size |-> 0]
             ELSE [kind |-> "nothing", size |-> 0]

\* ResponseShape, tabulated.
ShapeOf ==
    [q \in RequestLines, r \in ResponseLines |-> ResponseShape(Outbound(q), r)]

\* --------------------------------------------------------------------- state

VARIABLES
    pc,             \* where each worker is in handle_client
    conn,           \* each client connection: "open", "lost" (the proxy has seen
                    \* that the client went away), "closed" (closed by the proxy)
    request_line,   \* handle_client's request_line (stripped)
    nat_port,       \* handle_client's nat_port
    server_sock,    \* the upstream socket: [open, port, buf, fin]
    backend_reply,  \* what the backend put on the upstream connection of this command
    response_line,  \* _forward_response's response_line
    remaining,      \* _relay_bytes' remaining
    payload,        \* the bytes a pending _send_raw_via_nat is to write
    after,          \* where the worker continues after the pending send or unlock
    entry,          \* _send_raw_via_nat's entry
    exc,            \* the exception last raised in the current command, or "none"
    nat_table,      \* self.nat_table: port -> NATEntry, None when absent
    nat_lock,       \* self.nat_lock: the worker holding it, or NoHolder
    recvd,          \* per client: the writes its own worker made on its connection
                    \* since its current command was read
    misrouted,      \* per client: the other worker that wrote on its connection
                    \* since then, or "none"
    backend_rx,     \* per worker: the bytes sent to the backend for the current command
    table_op        \* the last table operation applied (table algebra)

vars == <<pc, conn, request_line, nat_port, server_sock, backend_reply, response_line,
          remaining, payload, after, entry, exc, nat_table, nat_lock, recvd,
          misrouted, backend_rx, table_op>>

ClosedSock == [open |-> FALSE, port |-> NoPort, buf |-> <<>>, fin |-> "none"]

NoOp == [op |-> "none", port |-> NoPort, entry |-> None, addr |-> <<"", 0>>,
         before |-> [p \in Ports |-> None], result |-> None]

Init ==
    /\ pc = [s \in Sessions |-> "Idle"]
    /\ conn = [s \in Sessions |-> "open"]
    /\ request_line = [s \in Sessions |-> <<>>]
    /\ nat_port = [s \in Sessions |-> NoPort]
    /\ server_sock = [s \in Sessions |-> ClosedSock]
    /\ backend_reply = [s \in Sessions |-> NoReply]
    /\ response_line = [s \in Sessions |-> <<>>]
    /\ remaining = [s \in Sessions |-> 0]
    /\ payload = [s \in Sessions |-> <<>>]
    /\ after = [s \in Sessions |-> "none"]
    /\ entry = [s \in Sessions |-> None]
    /\ exc = [s \in Sessions |-> "none"]
    /\ nat_table = [p \in Ports |-> None]
    /\ nat_lock = NoHolder
    /\ recvd = [s \in Sessions |-> <<>>]
    /\ misrouted = [s \in Sessions |-> "none"]
    /\ backend_rx = [s \in Sessions |-> <<>>]
    /\ table_op = NoOp

\* Local ports not bound to a currently open upstream socket.
FreePorts ==
    { p \in Ports : \A t \in Sessions : ~(server_sock[t].open /\ server_sock[t].port = p) }

\* A read or write on connection c fails when the client has gone away (which
\* the caller may be the first to see) or the proxy has closed the socket.
Gone(c) == IF conn[c] = "open" THEN "lost" ELSE conn[c]

\* ------------------------------------------------------------------- actions

\* start(): accept a connection and start its worker thread.
Accept(s) ==
    /\ pc[s] = "Idle"
    /\ pc' = [pc EXCEPT ![s] = "AwaitCommand"]
    /\ UNCHANGED <<conn, request_line, nat_port, server_sock, backend_reply,
                   response_line, remaining, payload, after, entry, exc, nat_table,
                   nat_lock, recvd, misrouted, backend_rx, table_op>>

\* handle_client, lines 42-49: read the next request line.  The client sends
\* a line, or has gone away: readline then returns None or recv raises.
ReadCommand(s) ==
    /\ pc[s] = "AwaitCommand"
    /\ \/ /\ conn[s] = "open"
          /\ \E input \in ClientInputs :
               LET r   == ReadLine(input)
                   req == Strip(r.line)
               IN  /\ r.kind = "line"
                   /\ conn' = [conn EXCEPT ![s] = IF input.fin = "eof" THEN "lost" ELSE "open"]
                   /\ IF req = <<>>
                      THEN UNCHANGED <<pc, request_line, recvd, misrouted, exc>>
                      ELSE /\ pc' = [pc EXCEPT ![s] = "Dialing"]
                           /\ request_line' = [request_line EXCEPT ![s] = req]
                           /\ recvd' = [recvd EXCEPT ![s] = <<>>]
                           /\ misrouted' = [misrouted EXCEPT ![s] = "none"]
                           /\ exc' = [exc EXCEPT ![s] = "none"]
       \/ /\ pc' = [pc EXCEPT ![s] = "Sweep"]
          /\ conn' = [conn EXCEPT ![s] = Gone(s)]
          /\ exc' = [exc EXCEPT ![s] = "none"]
          /\ recvd' = [recvd EXCEPT ![s] = <<>>]
          /\ misrouted' = [misrouted EXCEPT ![s] = "none"]
          /\ UNCHANGED request_line
       \/ /\ pc' = [pc EXCEPT ![s] = "CloseClient"]
          /\ conn' = [conn EXCEPT ![s] = Gone(s)]
          /\ exc' = [exc EXCEPT ![s] = "reset"]
          /\ recvd' = [recvd EXCEPT ![s] = <<>>]
          /\ misrouted' = [misrouted EXCEPT ![s] = "none"]
          /\ UNCHANGED request_line
    /\ UNCHANGED <<nat_port, server_sock, backend_reply, response_line, remaining,
                   payload, after, entry, nat_table, nat_lock, backend_rx, table_op>>

\* A dial that binds and registers the local port before it connects, so that
\* a failed connect leaves an entry behind.
DialRegistersEarly(s) ==
    /\ pc[s] = "Dialing"
    /\ \/ \E p \in FreePorts :
            /\ server_sock' = [server_sock EXCEPT ![s] =
                 [open |-> TRUE, port |-> p, buf |-> <<>>, fin |-> "none"]]
            /\ nat_port' = [nat_port EXCEPT ![s] = p]
            /\ pc' = [pc EXCEPT ![s] = "RegisterNat"]
            /\ UNCHANGED <<exc, nat_table>>
       \/ \E p \in FreePorts :
            /\ nat_table' = TableRegister(nat_table, p, s, ClientAddr(s))
            /\ exc' = [exc EXCEPT ![s] = "refused"]
            /\ pc' = [pc EXCEPT ![s] = "SendErrDirect"]
            /\ UNCHANGED <<server_sock, nat_port>>
    /\ UNCHANGED <<conn, request_line, backend_reply, response_line, remaining,
                   payload, after, entry, nat_lock, recvd, misrouted, backend_rx,
                   table_op>>

\* handle_client, lines 51-53: connect to the backend; the OS binds a free
\* local port.  A failed connect leaves nat_port None.
Dial(s) ==
    /\ pc[s] = "Dialing"
    /\ \/ \E p \in FreePorts :
            /\ server_sock' = [server_sock EXCEPT ![s] =
                 [open |-> TRUE, port |-> p, buf |-> <<>>, fin |-> "none"]]
            /\ nat_port' = [nat_port EXCEPT ![s] = p]
            /\ pc' = [pc EXCEPT ![s] = "RegisterNat"]
            /\ UNCHANGED exc
       \/ /\ exc' = [exc EXCEPT ![s] = "refused"]
          /\ pc' = [pc EXCEPT ![s] = "SendErrDirect"]
          /\ UNCHANGED <<server_sock, nat_port>>
    /\ UNCHANGED <<conn, request_line, backend_reply, response_line, remaining,
                   payload, after, entry, nat_table, nat_lock, recvd, misrouted, backend_rx,
                   table_op>>

\* handle_client, lines 65-70, nat_port None: the except clause writes the ERR
\* line on client_conn itself; if that raises, the worker dies.
SendErrDirect(s) ==
    /\ pc[s] = "SendErrDirect"
    /\ \/ /\ conn[s] = "open"
          /\ recvd' = [recvd EXCEPT ![s] = Append(@,
                ERR_SP \o MsgProxyError \o ExcText(exc[s]) \o <<NL>>)]
          /\ pc' = [pc EXCEPT ![s] = "AwaitCommand"]
          /\ UNCHANGED <<exc, conn, misrouted>>
       \/ /\ conn' = [conn EXCEPT ![s] = Gone(s)]
          /\ recvd' = [recvd EXCEPT ![s] = <<>>]
          /\ misrouted' = [misrouted EXCEPT ![s] = "none"]
          /\ exc' = [exc EXCEPT ![s] = "pipe"]
          /\ pc' = [pc EXCEPT ![s] = "CloseClient"]
    /\ request_line' = [request_line EXCEPT ![s] = <<>>]
    /\ UNCHANGED <<nat_port, server_sock, backend_reply, response_line, remaining,
                   payload, after, entry, nat_table, nat_lock, backend_rx, table_op>>

\* A _register_nat that takes the lock and stores nothing.
RegisterNatLater(s) ==
    /\ pc[s] = "RegisterNat"
    /\ nat_lock = NoHolder
    /\ nat_lock' = s
    /\ pc' = [pc EXCEPT ![s] = "Unlock"]
    /\ after' = [after EXCEPT ![s] = "Forwarding"]
    /\ UNCHANGED <<conn, request_line, nat_port, server_sock, backend_reply,
                   response_line, remaining, payload, entry, exc, nat_table, recvd,
                   misrouted, backend_rx, table_op>>

\* _register_nat: take the lock and store the entry.
RegisterNat(s) ==
    /\ pc[s] = "RegisterNat"
    /\ nat_lock = NoHolder
    /\ nat_lock' = s
    /\ nat_table' = TableRegister(nat_table, nat_port[s], s, ClientAddr(s))
    /\ pc' = [pc EXCEPT ![s] = "Unlock"]
    /\ after' = [after EXCEPT ![s] = "Forwarding"]
    /\ UNCHANGED <<conn, request_line, nat_port, server_sock, backend_reply,
                   response_line, remaining, payload, entry, exc, recvd, misrouted, backend_rx,
                   table_op>>

\* A _register_nat that returns with the lock still held.
UnlockKeepsLock(s) ==
    /\ pc[s] = "Unlock"
    /\ nat_lock' = IF after[s] = "Forwarding" THEN nat_lock ELSE NoHolder
    /\ pc' = [pc EXCEPT ![s] = after[s]]
    /\ after' = [after EXCEPT ![s] = "none"]
    /\ IF after[s] = "Forwarding"
       THEN UNCHANGED <<request_line, nat_port, backend_reply, response_line,
                        remaining, recvd, misrouted, backend_rx>>
       ELSE /\ request_line' = [request_line EXCEPT ![s] = <<>>]
            /\ nat_port' = [nat_port EXCEPT ![s] = NoPort]
            /\ backend_reply' = [backend_reply EXCEPT ![s] = NoReply]
            /\ response_line' = [response_line EXCEPT ![s] = <<>>]
            /\ remaining' = [remaining EXCEPT ![s] = 0]
            /\ recvd' = [recvd EXCEPT ![s] = <<>>]
            /\ misrouted' = [misrouted EXCEPT ![s] = "none"]
            /\ backend_rx' = [backend_rx EXCEPT ![s] = <<>>]
    /\ UNCHANGED <<conn, server_sock, payload, entry, exc, nat_table, table_op>>

\* Leaving the "with self.nat_lock" block of _register_nat, _remove_nat or
\* _remove_nat_by_client.  After _remove_nat the command is over: its locals
\* are dead and are cleared.
Unlock(s) ==
    /\ pc[s] = "Unlock"
    /\ nat_lock' = NoHolder
    /\ pc' = [pc EXCEPT ![s] = after[s]]
    /\ after' = [after EXCEPT ![s] = "none"]
    /\ IF after[s] = "Forwarding"
       THEN UNCHANGED <<request_line, nat_port, backend_reply, response_line,
                        remaining, recvd, misrouted, backend_rx>>
       ELSE /\ request_line' = [request_line EXCEPT ![s] = <<>>]
            /\ nat_port' = [nat_port EXCEPT ![s] = NoPort]
            /\ backend_reply' = [backend_reply EXCEPT ![s] = NoReply]
            /\ response_line' = [response_line EXCEPT ![s] = <<>>]
            /\ remaining' = [remaining EXCEPT ![s] = 0]
            /\ recvd' = [recvd EXCEPT ![s] = <<>>]
            /\ misrouted' = [misrouted EXCEPT ![s] = "none"]
            /\ backend_rx' = [backend_rx EXCEPT ![s] = <<>>]
    /\ UNCHANGED <<conn, server_sock, payload, entry, exc, nat_table, table_op>>

\* handle_client, lines 61-62: server_sock.sendall(outbound).  It raises when
\* the backend has already reset the connection.
Forwarding(s) ==
    /\ pc[s] = "Forwarding"
    /\ \/ /\ backend_rx' = [backend_rx EXCEPT ![s] = Outbound(request_line[s])]
          /\ pc' = [pc EXCEPT ![s] = "ReadHeader"]
          /\ UNCHANGED exc
       \/ /\ exc' = [exc EXCEPT ![s] = "reset"]
          /\ pc' = [pc EXCEPT ![s] = "Except"]
          /\ UNCHANGED backend_rx
    /\ UNCHANGED <<conn, request_line, nat_port, server_sock, backend_reply,
                   response_line, remaining, payload, after, entry, nat_table,
                   nat_lock, recvd, misrouted, table_op>>

\* _forward_response, lines 82-87: the backend's reply arrives and the header
\* line is read; an empty or missing header becomes "ERR empty response from
\* server", any other header is relayed as it is.
ReadHeader(s) ==
    /\ pc[s] = "ReadHeader"
    /\ \E reply \in Served[backend_rx[s]] :
         LET r == ReadLine(reply)
         IN  /\ r.kind # "block"
             /\ backend_reply' = [backend_reply EXCEPT ![s] = reply]
             /\ IF r.kind = "raise"
                THEN /\ exc' = [exc EXCEPT ![s] = "reset"]
                     /\ pc' = [pc EXCEPT ![s] = "Except"]
                     /\ UNCHANGED <<server_sock, response_line, payload, after>>
                ELSE /\ server_sock' = [server_sock EXCEPT ![s].buf = r.rest,
                                                           ![s].fin = reply.fin]
                     /\ pc' = [pc EXCEPT ![s] = "GetNatEntry"]
                     /\ IF r.kind = "none" \/ r.line = <<>>
                        THEN /\ payload' = [payload EXCEPT ![s] = ErrLine(MsgEmptyResponse)]
                             /\ after' = [after EXCEPT ![s] = "CloseSock"]
                             /\ UNCHANGED response_line
                        ELSE /\ response_line' = [response_line EXCEPT ![s] = r.line]
                             /\ payload' = [payload EXCEPT ![s] = FrameLine(r.line)]
                             /\ after' = [after EXCEPT ![s] = "Dispatch"]
                     /\ UNCHANGED exc
    /\ UNCHANGED <<conn, request_line, nat_port, remaining, entry, nat_table,
                   nat_lock, recvd, misrouted, backend_rx, table_op>>

\* _get_nat_entry called from _send_raw_via_nat: take the lock, read the entry.
GetNatEntry(s) ==
    /\ pc[s] = "GetNatEntry"
    /\ nat_lock = NoHolder
    /\ nat_lock' = s
    /\ entry' = [entry EXCEPT ![s] = TableGet(nat_table, nat_port[s])]
    /\ pc' = [pc EXCEPT ![s] = "GetNatEntryUnlock"]
    /\ UNCHANGED <<conn, request_line, nat_port, server_sock, backend_reply,
                   response_line, remaining, payload, after, exc, nat_table, recvd, misrouted,
                   backend_rx, table_op>>

\* Where a worker continues once a _send_raw_via_nat has returned: the send
\* made by the except clause is followed by the finally clause, after which
\* the loop goes on.
Continue(s) == IF after[s] = "RemoveNat" THEN "AwaitCommand" ELSE "none"

\* A _send_raw_via_nat that sends inside the "with self.nat_lock" block: the
\* lock is still held when sendall is entered.
GetNatEntryKeepLock(s) ==
    /\ pc[s] = "GetNatEntryUnlock"
    /\ IF entry[s] = None
       THEN /\ nat_lock' = NoHolder
            /\ pc' = [pc EXCEPT ![s] = after[s]]
            /\ after' = [after EXCEPT ![s] = Continue(s)]
            /\ payload' = [payload EXCEPT ![s] = <<>>]
       ELSE /\ pc' = [pc EXCEPT ![s] = "SendAll"]
            /\ UNCHANGED <<after, payload, nat_lock>>
    /\ UNCHANGED <<conn, request_line, nat_port, server_sock, backend_reply,
                   response_line, remaining, entry, exc, nat_table, recvd, misrouted,
                   backend_rx, table_op>>

\* _get_nat_entry returns (the lock is released); _send_raw_via_nat, lines
\* 138-139: no entry, return without sending.
GetNatEntryUnlock(s) ==
    /\ pc[s] = "GetNatEntryUnlock"
    /\ nat_lock' = NoHolder
    /\ IF entry[s] = None
       THEN /\ pc' = [pc EXCEPT ![s] = after[s]]
            /\ after' = [after EXCEPT ![s] = Continue(s)]
            /\ payload' = [payload EXCEPT ![s] = <<>>]
       ELSE /\ pc' = [pc EXCEPT ![s] = "SendAll"]
            /\ UNCHANGED <<after, payload>>
    /\ UNCHANGED <<conn, request_line, nat_port, server_sock, backend_reply,
                   response_line, remaining, entry, exc, nat_table, recvd, misrouted,
                   backend_rx, table_op>>

\* _send_raw_via_nat, line 140: entry.client_conn.sendall(payload).  A failed
\* send raises: inside the with block it is caught by the except clause;
\* raised by the except clause's own send it propagates through finally.
SendAll(s) ==
    LET c == entry[s].client_conn
    IN  /\ pc[s] = "SendAll"
        /\ \/ /\ conn[c] = "open"
              /\ IF c = s
                 THEN /\ recvd' = [recvd EXCEPT ![c] = Append(@, payload[s])]
                      /\ UNCHANGED misrouted
                 ELSE /\ misrouted' = [misrouted EXCEPT ![c] = s]
                      /\ UNCHANGED recvd
              /\ pc' = [pc EXCEPT ![s] = after[s]]
              /\ after' = [after EXCEPT ![s] = Continue(s)]
              /\ UNCHANGED <<exc, conn>>
           \/ /\ conn' = [conn EXCEPT ![c] = Gone(c)]
              /\ recvd' = [recvd EXCEPT ![c] = <<>>]
              /\ misrouted' = [misrouted EXCEPT ![c] = "none"]
              /\ exc' = [exc EXCEPT ![s] = "pipe"]
              /\ IF after[s] = "RemoveNat"
                 THEN /\ pc' = [pc EXCEPT ![s] = "RemoveNat"]
                      /\ after' = [after EXCEPT ![s] = "CloseClient"]
                 ELSE /\ pc' = [pc EXCEPT ![s] = "Except"]
                      /\ after' = [after EXCEPT ![s] = "none"]
        /\ payload' = [payload EXCEPT ![s] = <<>>]
        /\ entry' = [entry EXCEPT ![s] = None]
        /\ UNCHANGED <<request_line, nat_port, server_sock, backend_reply,
                       response_line, remaining, nat_table, nat_lock, backend_rx,
                       table_op>>

\* _forward_response, lines 89-98: choose how much more to relay.
Dispatch(s) ==
    /\ pc[s] = "Dispatch"
    /\ LET shape == ShapeOf[request_line[s], response_line[s]]
       IN  CASE shape.kind = "bytes" ->
                  /\ remaining' = [remaining EXCEPT ![s] = shape.size]
                  /\ pc' = [pc EXCEPT ![s] = "RelayBytes"]
                  /\ UNCHANGED <<payload, after>>
             [] shape.kind = "invalid" ->
                  /\ payload' = [payload EXCEPT ![s] = ErrLine(MsgInvalidSize)]
                  /\ after' = [after EXCEPT ![s] = "CloseSock"]
                  /\ pc' = [pc EXCEPT ![s] = "GetNatEntry"]
                  /\ UNCHANGED remaining
             [] shape.kind = "lines" ->
                  /\ pc' = [pc EXCEPT ![s] = "RelayUntilEnd"]
                  /\ UNCHANGED <<remaining, payload, after>>
             [] OTHER ->
                  /\ pc' = [pc EXCEPT ![s] = "CloseSock"]
                  /\ UNCHANGED <<remaining, payload, after>>
    /\ UNCHANGED <<conn, request_line, nat_port, server_sock, backend_reply,
                   response_line, entry, exc, nat_table, nat_lock, recvd, misrouted,
                   backend_rx, table_op>>

\* _relay_bytes: recv up to min(4096, remaining) bytes and send them through
\* the table, until remaining bytes were relayed or the backend closed.
RelayBytes(s) ==
    LET buf == server_sock[s].buf
    IN  /\ pc[s] = "RelayBytes"
        /\ \/ /\ remaining[s] <= 0 \/ (buf = <<>> /\ server_sock[s].fin = "eof")
              /\ pc' = [pc EXCEPT ![s] = "CloseSock"]
              /\ UNCHANGED <<server_sock, remaining, payload, after>>
           \/ /\ remaining[s] > 0 /\ buf # <<>>
              /\ \E k \in 1 .. Min(Min(RecvMax, remaining[s]), Len(buf)) :
                   /\ server_sock' = [server_sock EXCEPT ![s].buf = SubSeq(buf, k + 1, Len(buf))]
                   /\ remaining' = [remaining EXCEPT ![s] = @ - k]
                   /\ payload' = [payload EXCEPT ![s] = SubSeq(buf, 1, k)]
              /\ after' = [after EXCEPT ![s] = "RelayBytes"]
              /\ pc' = [pc EXCEPT ![s] = "GetNatEntry"]
        /\ UNCHANGED <<conn, request_line, nat_port, backend_reply, response_line,
                       entry, exc, nat_table, nat_lock, recvd, misrouted, backend_rx, table_op>>

\* _relay_until_end: relay lines until "END" was relayed or the backend closed.
RelayUntilEnd(s) ==
    LET r == ReadLine(server_sock[s])
    IN  /\ pc[s] = "RelayUntilEnd"
        /\ \/ /\ r.kind = "none"
              /\ pc' = [pc EXCEPT ![s] = "CloseSock"]
              /\ UNCHANGED <<server_sock, payload, after, exc>>
           \/ /\ r.kind = "line"
              /\ server_sock' = [server_sock EXCEPT ![s].buf = r.rest]
              /\ payload' = [payload EXCEPT ![s] = FrameLine(r.line)]
              /\ after' = [after EXCEPT ![s] = IF r.line = END_ THEN "CloseSock" ELSE "RelayUntilEnd"]
              /\ pc' = [pc EXCEPT ![s] = "GetNatEntry"]
              /\ UNCHANGED exc
           \/ /\ r.kind = "raise"
              /\ exc' = [exc EXCEPT ![s] = "reset"]
              /\ pc' = [pc EXCEPT ![s] = "Except"]
              /\ UNCHANGED <<server_sock, payload, after>>
        /\ UNCHANGED <<conn, request_line, nat_port, backend_reply, response_line,
                       remaining, entry, nat_table, nat_lock, recvd, misrouted, backend_rx,
                       table_op>>

\* handle_client, line 51: the with block is left normally; server_sock is
\* closed, then the finally clause runs.
CloseSock(s) ==
    /\ pc[s] = "CloseSock"
    /\ server_sock' = [server_sock EXCEPT ![s] = ClosedSock]
    /\ pc' = [pc EXCEPT ![s] = "RemoveNat"]
    /\ after' = [after EXCEPT ![s] = "AwaitCommand"]
    /\ UNCHANGED <<conn, request_line, nat_port, backend_reply, response_line,
                   remaining, payload, entry, exc, nat_table, nat_lock, recvd, misrouted,
                   backend_rx, table_op>>

\* handle_client, lines 51 and 65-68: an exception leaves the with block, which
\* closes server_sock; the except clause then sends the error through the
\* table.  The locals of the abandoned calls are dead and are cleared.
Except(s) ==
    /\ pc[s] = "Except"
    /\ server_sock' = [server_sock EXCEPT ![s] = ClosedSock]
    /\ payload' = [payload EXCEPT ![s] = ErrLine(MsgProxyError \o ExcText(exc[s]))]
    /\ after' = [after EXCEPT ![s] = "RemoveNat"]
    /\ pc' = [pc EXCEPT ![s] = "GetNatEntry"]
    /\ request_line' = [request_line EXCEPT ![s] = <<>>]
    /\ response_line' = [response_line EXCEPT ![s] = <<>>]
    /\ remaining' = [remaining EXCEPT ![s] = 0]
    /\ backend_reply' = [backend_reply EXCEPT ![s] = NoReply]
    /\ backend_rx' = [backend_rx EXCEPT ![s] = <<>>]
    /\ UNCHANGED <<conn, nat_port, entry, exc, nat_table, nat_lock, recvd, misrouted, table_op>>

\* A finally clause that takes the lock and removes nothing.
RemoveNatSkipped(s) ==
    /\ pc[s] = "RemoveNat"
    /\ nat_lock = NoHolder
    /\ nat_lock' = s
    /\ pc' = [pc EXCEPT ![s] = "Unlock"]
    /\ UNCHANGED <<conn, request_line, nat_port, server_sock, backend_reply,
                   response_line, remaining, payload, after, entry, exc, nat_table,
                   recvd, misrouted, backend_rx, table_op>>

\* handle_client, lines 71-73 with _remove_nat: the finally clause.
RemoveNat(s) ==
    /\ pc[s] = "RemoveNat"
    /\ nat_lock = NoHolder
    /\ nat_lock' = s
    /\ nat_table' = TableRemove(nat_table, nat_port[s])
    /\ pc' = [pc EXCEPT ![s] = "Unlock"]
    /\ UNCHANGED <<conn, request_line, nat_port, server_sock, backend_reply,
                   response_line, remaining, payload, after, entry, exc, recvd, misrouted,
                   backend_rx, table_op>>

\* handle_client, line 75 with _remove_nat_by_client: the sweep after the loop.
RemoveNatByClient(s) ==
    /\ pc[s] = "Sweep"
    /\ nat_lock = NoHolder
    /\ nat_lock' = s
    /\ nat_table' = TableRemoveByClient(nat_table, ClientAddr(s))
    /\ pc' = [pc EXCEPT ![s] = "Unlock"]
    /\ after' = [after EXCEPT ![s] = "CloseClient"]
    /\ UNCHANGED <<conn, request_line, nat_port, server_sock, backend_reply,
                   response_line, remaining, payload, entry, exc, recvd, misrouted, backend_rx,
                   table_op>>

\* handle_client, line 40: leaving "with client_conn" closes the client
\* connection, on return and on a propagating exception alike; the thread ends.
CloseClient(s) ==
    /\ pc[s] = "CloseClient"
    /\ conn' = [conn EXCEPT ![s] = "closed"]
    /\ pc' = [pc EXCEPT ![s] = "Closed"]
    /\ recvd' = [recvd EXCEPT ![s] = <<>>]
    /\ misrouted' = [misrouted EXCEPT ![s] = "none"]
    /\ UNCHANGED <<request_line, nat_port, server_sock, backend_reply, response_line,
                   remaining, payload, after, entry, exc, nat_table, nat_lock,
                   backend_rx, table_op>>

Next ==
    \E s \in Sessions :
        \/ Accept(s)
        \/ ReadCommand(s)
        \/ Dial(s)
        \/ SendErrDirect(s)
        \/ RegisterNat(s)
        \/ Unlock(s)
        \/ Forwarding(s)
        \/ ReadHeader(s)
        \/ GetNatEntry(s)
        \/ GetNatEntryUnlock(s)
        \/ SendAll(s)
        \/ Dispatch(s)
        \/ RelayBytes(s)
        \/ RelayUntilEnd(s)
        \/ CloseSock(s)
        \/ Except(s)
        \/ RemoveNat(s)
        \/ RemoveNatByClient(s)
        \/ CloseClient(s)

Spec == Init /\ [][Next]_vars

\* ------------------------------------------------------------ table algebra

\* The four table methods called on their own, in any order, with any port,
\* connection and address: each call is atomic under nat_lock.
Addrs == {ClientAddr("A"), ClientAddr("B"), <<"10.0.0.2", 40001>>}

\* _register_nat(nat_port, client_conn, client_addr)
Register(port, client_conn, client_addr) ==
    /\ nat_table' = TableRegister(nat_table, port, client_conn, client_addr)
    /\ table_op' = [op |-> "register", port |-> port,
                    entry |-> NATEntry(client_conn, client_addr), addr |-> client_addr,
                    before |-> nat_table, result |-> None]
    /\ UNCHANGED <<pc, conn, request_line, nat_port, server_sock, backend_reply,
                   response_line, remaining, payload, after, entry, exc, nat_lock,
                   recvd, misrouted, backend_rx>>

\* _get_nat_entry(nat_port)
Lookup(port) ==
    /\ table_op' = [op |-> "lookup", port |-> port, entry |-> None, addr |-> <<"", 0>>,
                    before |-> nat_table, result |-> TableGet(nat_table, port)]
    /\ UNCHANGED <<pc, conn, request_line, nat_port, server_sock, backend_reply,
                   response_line, remaining, payload, after, entry, exc, nat_table,
                   nat_lock, recvd, misrouted, backend_rx>>

\* _remove_nat(nat_port)
Remove(port) ==
    /\ nat_table' = TableRemove(nat_table, port)
    /\ table_op' = [op |-> "remove", port |-> port, entry |-> None, addr |-> <<"", 0>>,
                    before |-> nat_table, result |-> None]
    /\ UNCHANGED <<pc, conn, request_line, nat_port, server_sock, backend_reply,
                   response_line, remaining, payload, after, entry, exc, nat_lock,
                   recvd, misrouted, backend_rx>>

\* _remove_nat_by_client(client_addr)
RemoveByClient(client_addr) ==
    /\ nat_table' = TableRemoveByClient(nat_table, client_addr)
    /\ table_op' = [op |-> "removeByClient", port |-> NoPort, entry |-> None,
                    addr |-> client_addr, before |-> nat_table, result |-> None]
    /\ UNCHANGED <<pc, conn, request_line, nat_port, server_sock, backend_reply,
                   response_line, remaining, payload, after, entry, exc, nat_lock,
                   recvd, misrouted, backend_rx>>

TableNext ==
    \/ \E port \in Ports, client_conn \in Sessions, client_addr \in Addrs :
         Register(port, client_conn, client_addr)
    \/ \E port \in Ports : Lookup(port)
    \/ \E port \in Ports : Remove(port)
    \/ \E client_addr \in Addrs : RemoveByClient(client_addr)

SpecTable == Init /\ [][TableNext]_vars

\* (host, port) stored in a table entry.
EntryAddr(e) == <<e.client_addr, e.client_port>>

\* -------------------------------------------------------------------- claims

\* The command verb: the first whitespace-delimited token, upper-cased.
Verb(line) == LET parts == SplitMax1(line) IN IF parts = <<>> THEN <<>> ELSE Upper(parts[1])

\* The worker has relayed the whole response and is about to leave the with
\* block normally, and the client is still there.
Relayed(s) == pc[s] = "CloseSock" /\ conn[s] = "open"

\* The worker is on its way out of handle_client.
Ending(s) ==
    \/ pc[s] \in {"Sweep", "CloseClient", "Closed"}
    \/ pc[s] \in {"RemoveNat", "Unlock"} /\ after[s] = "CloseClient"

\* C1: every write a worker makes on behalf of its client's command lands on
\* that client's connection: no connection ever receives a write made by
\* another client's worker.
C1_NoCrossDelivery == \A c \in Sessions : misrouted[c] = "none"

\* The header line and the declared size of a reply that starts "OK <n>".
SizedHeader(reply) ==
    LET r     == ReadLine(reply)
        parts == SplitMax1(r.line)
        size  == IF Len(parts) = 2 THEN ParseInt(parts[2]) ELSE [ok |-> FALSE, val |-> 0]
    IN  [ok   |-> r.kind = "line" /\ StartsWith(r.line, OK_SP) /\ size.ok
                  /\ size.val >= 0 /\ Len(r.rest) >= size.val,
         line |-> r.line, n |-> size.val, rest |-> r.rest]

\* C2: when a DOWNLOAD command is answered "OK n" and n bytes, then once the
\* relay is over the client has received the header line followed by exactly
\* those n bytes, and the bytes after them are still unread on the upstream
\* socket.
C2_DownloadRelayedExactly ==
    \A s \in Sessions :
        LET h == SizedHeader(backend_reply[s])
        IN  (Relayed(s) /\ Verb(request_line[s]) = DOWNLOAD_ /\ h.ok)
            => /\ Flatten(recvd[s]) = FrameLine(h.line) \o SubSeq(h.rest, 1, h.n)
               /\ server_sock[s].buf = SubSeq(h.rest, h.n + 1, Len(h.rest))

\* The bytes of buf up to and including the first line equal to END; ok is
\* FALSE when there is no such line.
RECURSIVE ThroughEnd(_)
ThroughEnd(buf) ==
    LET r == ReadLine([buf |-> buf, fin |-> "eof"])
    IN  IF buf = <<>> \/ ~(\E i \in DOMAIN buf : buf[i] = NL)
        THEN [ok |-> FALSE, bytes |-> <<>>, rest |-> <<>>]
        ELSE IF r.line = END_
        THEN [ok |-> TRUE, bytes |-> r.line \o <<NL>>, rest |-> r.rest]
        ELSE LET t == ThroughEnd(r.rest)
             IN  [ok |-> t.ok, bytes |-> r.line \o <<NL>> \o t.bytes, rest |-> t.rest]

\* C3: when a LIST command is answered "OK", filename lines and "END", then
\* once the relay is over the client has received "OK", the same lines in the
\* same order and one "END", and nothing that follows END was read.
C3_ListRelayedExactly ==
    \A s \in Sessions :
        LET r == ReadLine(backend_reply[s])
            t == ThroughEnd(r.rest)
        IN  (Relayed(s) /\ Verb(request_line[s]) = LIST_ /\ Len(SplitMax1(request_line[s])) = 1
               /\ r.kind = "line" /\ r.line = OK_ /\ t.ok)
            => /\ Flatten(recvd[s]) = OK_ \o <<NL>> \o t.bytes
               /\ server_sock[s].buf = t.rest

\* C4: while a session awaits a command or is closed, the table holds no
\* entry whose stored client address is that session's.
C4_NoEntryOutlivesCommand ==
    \A s \in Sessions :
        pc[s] \in {"AwaitCommand", "Closed"}
        => \A p \in Ports : nat_table[p] = None \/ EntryAddr(nat_table[p]) # ClientAddr(s)

\* A session is back awaiting a command after a command that had registered
\* an entry and was ended by an exception, while the other session's entry is
\* in the table.
C4_Witness ==
    \E s \in Sessions :
        /\ pc[s] = "AwaitCommand" /\ exc[s] = "reset"
        /\ \E p \in Ports : nat_table[p] # None

\* C5: the steps a worker takes for a command whose dial fails leave the table
\* as it is, record no port and send nothing to the backend; and when the
\* write on the client's connection succeeds, the client has received exactly
\* one line for the command, an ERR line, and the session awaits a command.
C5_DialFailure ==
    [][\A s \in Sessions :
         ((pc[s] = "Dialing" /\ pc'[s] = "SendErrDirect")
            \/ (pc[s] = "SendErrDirect" /\ pc'[s] # "SendErrDirect"))
         => /\ nat_table' = nat_table
            /\ nat_port'[s] = NoPort
            /\ backend_rx'[s] = <<>>
            /\ ~server_sock'[s].open
            /\ (pc[s] = "SendErrDirect" /\ conn'[s] = "open")
               => /\ pc'[s] = "AwaitCommand"
                  /\ Len(recvd'[s]) = 1
                  /\ StartsWith(recvd'[s][1], ERR_SP)
                  /\ recvd'[s][1][Len(recvd'[s][1])] = NL]_vars

\* A dial has failed while the other session's entry is in the table, the ERR
\* line was written and the session awaits its next command.
C5_Witness ==
    \E s \in Sessions :
        /\ pc[s] = "AwaitCommand" /\ exc[s] = "refused" /\ Len(recvd[s]) = 1
        /\ \E p \in Ports : nat_table[p] # None

\* C6: a session ends only when its own client connection has failed: backend
\* failures and the failure of another client's connection leave it running.
C6_OnlyOwnClientFailureEnds ==
    \A s \in Sessions : Ending(s) => conn[s] # "open"

\* C7: right after register(p, e), lookup(p) returns e, whatever p held
\* before; right after remove(p), lookup(p) returns absent; right after
\* removeByClient(a), lookup returns absent for every port whose entry had
\* client address a.
C7_TableRoundTrip ==
    /\ table_op.op = "register"
       => TableGet(nat_table, table_op.port) = table_op.entry
    /\ table_op.op = "remove"
       => TableGet(nat_table, table_op.port) = None
    /\ table_op.op = "removeByClient"
       => \A p \in Ports :
            (table_op.before[p] # None /\ EntryAddr(table_op.before[p]) = table_op.addr)
            => TableGet(nat_table, p) = None

\* A register has just overwritten another client's entry for the same port.
C7_Witness ==
    /\ table_op.op = "register"
    /\ table_op.before[table_op.port] # None
    /\ table_op.before[table_op.port] # table_op.entry

\* C8: remove(p) changes no entry but p's and changes nothing when p has no
\* entry; removeByClient(a) deletes the entries whose stored (host, port) is a
\* and leaves every other entry, hence the whole table when none matches.
C8_RemovalFramed ==
    /\ table_op.op = "remove"
       => /\ \A q \in Ports \ {table_op.port} : nat_table[q] = table_op.before[q]
          /\ table_op.before[table_op.port] = None => nat_table = table_op.before
    /\ table_op.op = "removeByClient"
       => \A q \in Ports :
            nat_table[q] =
              IF table_op.before[q] # None /\ EntryAddr(table_op.before[q]) = table_op.addr
              THEN None ELSE table_op.before[q]

\* A removeByClient has just deleted one entry and kept an entry of another
\* client on the same host.
C8_Witness ==
    /\ table_op.op = "removeByClient"
    /\ \E p, q \in Ports :
         /\ table_op.before[p] # None /\ nat_table[p] = None
         /\ nat_table[q] # None
         /\ nat_table[q].client_addr = table_op.addr[1]

\* C9: the part of the response relayed after the header is chosen by the
\* command's first token: lines through END for LIST answered "OK", n bytes
\* for DOWNLOAD answered "OK <n>", nothing for any other first token.
C9_ShapeByFirstToken ==
    [][\A s \in Sessions :
         (pc[s] = "Dispatch" /\ pc'[s] # "Dispatch")
         => LET verb == Verb(request_line[s])
                h    == SizedHeader([buf |-> response_line[s] \o <<NL>>, fin |-> "eof"])
            IN  /\ (verb = LIST_ /\ response_line[s] = OK_) => pc'[s] = "RelayUntilEnd"
                /\ (verb = DOWNLOAD_ /\ h.ok)
                   => (pc'[s] = "RelayBytes" /\ remaining'[s] = h.n)
                /\ verb \notin {LIST_, DOWNLOAD_} => pc'[s] = "CloseSock"]_vars

\* The steps in which a worker is inside a blocking socket call.
InIO(s) ==
    pc[s] \in {"AwaitCommand", "Dialing", "SendErrDirect", "Forwarding", "ReadHeader",
               "SendAll", "RelayBytes", "RelayUntilEnd"}

\* C10: a worker inside a blocking socket call does not hold nat_lock.
C10_NoLockAcrossIO == \A s \in Sessions : InIO(s) => nat_lock # s

\* One worker is inside sendall with the entry it looked up while the other
\* worker holds the lock for its own table operation.
C10_Witness ==
    \E s, t \in Sessions :
        /\ s # t
        /\ pc[s] = "SendAll"
        /\ nat_lock = t

\* A stream whose peer closed after at least one byte of a line that has no
\* newline.
Unterminated(stream) ==
    /\ stream.buf # <<>>
    /\ ~(\E i \in DOMAIN stream.buf : stream.buf[i] = NL)
    /\ stream.fin = "eof"

\* C11: whenever a worker is about to read a line from its upstream socket,
\* _readline reports end of stream only if no byte of a line is there, and an
\* unterminated last line is reported neither as a line nor as end of stream.
C11_PartialLineIsError ==
    \A s \in Sessions :
        pc[s] = "RelayUntilEnd"
        => LET r == ReadLine(server_sock[s])
           IN  /\ r.kind = "none" => server_sock[s].buf = <<>>
               /\ Unterminated(server_sock[s]) => r.kind \notin {"line", "none"}

\* The worker has left the with block normally: the response was dealt with
\* and the finally clause is running or about to run; the client is there.
Finishing(s) ==
    /\ pc[s] \in {"CloseSock", "RemoveNat", "Unlock"}
    /\ after[s] \in {"none", "AwaitCommand"}
    /\ conn[s] = "open"

\* The finally clause of the command has run _remove_nat and the worker is
\* about to go back to the head of the loop.
Cleaned(s) == pc[s] = "Unlock" /\ after[s] = "AwaitCommand" /\ nat_lock = s

\* C12: when the backend closed without a header or sent an empty header
\* line, then once the response was dealt with the client has received the
\* one line "ERR empty response from server" and nothing else, and after the
\* command's cleanup the table has no entry for the command's port.
C12_EmptyHeaderIsErr ==
    \A s \in Sessions :
        (Finishing(s) /\ backend_reply[s] \in {ReplyNothing, ReplyBlank})
        => /\ recvd[s] = <<ErrLine(MsgEmptyResponse)>>
           /\ Cleaned(s) => TableGet(nat_table, nat_port[s]) = None

\* C13: when a DOWNLOAD command is answered a header "OK <x>" whose <x> is not
\* a number, then once the response was dealt with the client has received
\* the header and one ERR line and nothing else, the bytes after the header
\* are unread on the upstream socket, and after the command's cleanup the
\* table has no entry for the command's port.
C13_BadSizeIsErr ==
    \A s \in Sessions :
        LET r == ReadLine(ReplyBadSize)
        IN  (Finishing(s) /\ backend_reply[s] = ReplyBadSize
               /\ Verb(request_line[s]) = DOWNLOAD_)
            => /\ recvd[s] = <<FrameLine(r.line), ErrLine(MsgInvalidSize)>>
               /\ pc[s] = "CloseSock" => server_sock[s].buf = r.rest
               /\ Cleaned(s) => TableGet(nat_table, nat_port[s]) = None

\* C14: a worker enters the sending of the command to the backend only from
\* the end of _register_nat, with the entry {dial port -> its client} in the
\* table and nothing yet sent or received upstream; bytes go to the backend
\* only in that sending step, and a response is read only after it.
C14_RegisterBeforeForward ==
    [][\A s \in Sessions :
         /\ (pc'[s] = "Forwarding" /\ pc[s] # "Forwarding")
            => /\ nat_lock = s
               /\ server_sock[s].open /\ server_sock[s].port = nat_port[s]
               /\ TableGet(nat_table, nat_port[s]) = NATEntry(s, ClientAddr(s))
               /\ TableGet(nat_table', nat_port[s]) = NATEntry(s, ClientAddr(s))
               /\ backend_rx[s] = <<>> /\ backend_reply[s] = NoReply
         /\ (backend_rx'[s] # backend_rx[s] /\ backend_rx'[s] # <<>>)
            => pc[s] = "Forwarding"
         /\ (backend_reply'[s] # backend_reply[s] /\ backend_reply'[s] # NoReply)
            => backend_rx[s] # <<>>]_vars

\* A worker has sent its command and waits for the header, its entry being in
\* the table, while the other worker is in a command of its own.
C14_Witness ==
    \E s, t \in Sessions :
        /\ s # t
        /\ pc[s] = "ReadHeader" /\ backend_rx[s] # <<>>
        /\ TableGet(nat_table, nat_port[s]) = NATEntry(s, ClientAddr(s))
        /\ nat_port[t] # NoPort

\* The worker has registered its dial port and has not yet run its own
\* _remove_nat for it.
Holding(s) ==
    /\ nat_port[s] # NoPort
    /\ pc[s] \in {"Forwarding", "ReadHeader", "GetNatEntry", "GetNatEntryUnlock",
                  "SendAll", "Dispatch", "RelayBytes", "RelayUntilEnd", "CloseSock",
                  "Except", "RemoveNat"}

\* C15: from a worker's registration of its dial port until its own cleanup
\* of that port, the table maps the port to that worker's client.
C15_OwnEntryStable ==
    \A s \in Sessions :
        Holding(s) => TableGet(nat_table, nat_port[s]) = NATEntry(s, ClientAddr(s))

\* C16: when a DOWNLOAD command is answered "OK n" and the backend closes
\* after fewer than n bytes, then once the relay is over the client has
\* received the header and exactly the bytes that were sent, with no ERR
\* line, and after the command's cleanup the table has no entry for the
\* command's port and the worker goes back to await a command.
C16_SilentTruncation ==
    \A s \in Sessions :
        LET r     == ReadLine(backend_reply[s])
            parts == SplitMax1(r.line)
            size  == IF Len(parts) = 2 THEN ParseInt(parts[2]) ELSE [ok |-> FALSE, val |-> 0]
        IN  (Finishing(s) /\ Verb(request_line[s]) = DOWNLOAD_
               /\ r.kind = "line" /\ StartsWith(r.line, OK_SP) /\ size.ok
               /\ Len(r.rest) < size.val /\ backend_reply[s].fin = "eof")
            => /\ Flatten(recvd[s]) = FrameLine(r.line) \o r.rest
               /\ \A i \in DOMAIN recvd[s] : ~StartsWith(recvd[s][i], ERR_SP)
               /\ Cleaned(s) => TableGet(nat_table, nat_port[s]) = None

\* The ports whose entry stores the client address of session s.
EntriesOf(s) ==
    { p \in Ports : nat_table[p] # None /\ EntryAddr(nat_table[p]) = ClientAddr(s) }

\* C17: at every instant the table holds at most one entry per client address.
C17_OneEntryPerClient == \A s \in Sessions : Cardinality(EntriesOf(s)) <= 1

\* A session is in a command on the second port, with its entry there, after
\* the first port was given up, while the other session has an entry too.
C17_Witness ==
    \E s, t \in Sessions :
        /\ s # t
        /\ pc[s] = "ReadHeader" /\ EntriesOf(s) = {NumPorts}
        /\ Cardinality(EntriesOf(t)) = 1

\* Any step of the worker thread of session s.
Worker(s) ==
    \/ Accept(s) \/ ReadCommand(s) \/ Dial(s) \/ SendErrDirect(s)
    \/ RegisterNat(s) \/ Unlock(s) \/ Forwarding(s) \/ ReadHeader(s)
    \/ GetNatEntry(s) \/ GetNatEntryUnlock(s) \/ SendAll(s) \/ Dispatch(s)
    \/ RelayBytes(s) \/ RelayUntilEnd(s) \/ CloseSock(s) \/ Except(s)
    \/ RemoveNat(s) \/ RemoveNatByClient(s) \/ CloseClient(s)

\* The proxy with B's worker thread scheduled whenever it can run, its client
\* and backend answering, and no assumption at all on A's worker: A may stay
\* in any call for ever.
SpecProgress == Init /\ [][Next]_vars /\ WF_vars(Worker("B"))

\* C18: a command of B that is being dialed while A's worker is in a blocking
\* socket call is brought to its end, B being back awaiting a command (unless
\* B's own client connection fails), for as long as A stays in blocking calls.
C18_IndependentProgress ==
    (pc["B"] = "Dialing" /\ InIO("A"))
        ~> (pc["B"] = "AwaitCommand" \/ conn["B"] # "open" \/ ~InIO("A"))

\* B's command was dialed, registered, relayed and cleaned up while A waits
\* for its backend's header with its own entry in the table.
C18_Witness ==
    /\ Cleaned("B") /\ conn["B"] = "open" /\ Len(recvd["B"]) >= 2
    /\ pc["A"] = "ReadHeader"
    /\ TableGet(nat_table, nat_port["A"]) = NATEntry("A", ClientAddr("A"))

\* C19: when a command that was sent upstream has been brought to its end and
\* the client's connection is still there, the client has received at least
\* one line for it: the backend's header or an ERR line made by the proxy.
C19_EveryCommandAnswered ==
    \A s \in Sessions :
        (Cleaned(s) /\ conn[s] = "open") => Len(recvd[s]) >= 1

\* C20: every entry of the table is under a port that the upstream socket of
\* the session which registered it is bound to, that socket being open.
C20_EntryBackedBySocket ==
    \A p \in Ports :
        nat_table[p] # None
        => LET s == nat_table[p].client_conn
           IN  server_sock[s].open /\ server_sock[s].port = p

====
